---- MODULE Spec2Model ----
(***************************************************************************)
(* Model of git-prompt-rs (src/src/main.rs): one invocation of the tool.   *)
(*                                                                         *)
(* Text is modelled byte by byte: a string is a sequence of one-byte        *)
(* strings.  Bytes that are not printable ASCII are named: ESC is 0x1b, NL *)
(* is 0x0a, and the arrows U+2191 and U+2193 are their three UTF-8 bytes.  *)
(*                                                                         *)
(* The libraries the program calls (git2, colored, clap, env_logger) are   *)
(* its environment: every fallible git2 call is a nondeterministic choice  *)
(* among its outcomes, and colored's rendering is modelled by what the     *)
(* crate writes (an SGR prefix, the text, the SGR reset).                  *)
(***************************************************************************)
EXTENDS Integers, Sequences, FiniteSets, TLC

VARIABLES
  pc,            \* position of the process in main / run
  args_color,    \* Args.color
  args_zsh,      \* Args.zsh
  colorize,      \* colored's process-wide override, set by main
  statuses,      \* the git2::Statuses list read by run
  index_status,  \* (new, modified, deleted) of the index side
  wt_status,     \* (new, modified, deleted) of the worktree side
  head,          \* what repo.head() returned to get_branch_name
  branch_name,   \* run's branch_name
  divergence,    \* what is_ahead_behind_remote returned
  ahead,         \* run's ahead
  behind,        \* run's behind
  run_result,    \* the Result run returned: "pending", "Ok" or the error
  stdout,        \* the bytes that reached standard output
  log,           \* records handed to the logger
  exit_code,     \* process exit status: -1 while running, the negated
                 \* signal number when a signal killed the process
  stderr,        \* panic messages written to standard error
  fc_in,         \* format_color call under test: its arguments
  fc_out         \* format_color call under test: its result

vars == <<pc, args_color, args_zsh, colorize, statuses, index_status,
          wt_status, head, branch_name, divergence, ahead, behind,
          run_result, stdout, log, exit_code, stderr, fc_in, fc_out>>

----------------------------------------------------------------------------
(* Bounds *)

MaxRecords == 2
MaxClassifyLen == 2
MaxCommits == 1

----------------------------------------------------------------------------
(* Characters and text helpers *)

ESC == "ESC"
NL == "\n"
UpArrow == <<"0xE2", "0x86", "0x91">>
DownArrow == <<"0xE2", "0x86", "0x93">>
Space == " "

\* str::is_empty
IsEmpty(s) == Len(s) = 0

\* s contains sub as a contiguous substring
Contains(s, sub) ==
  \/ sub = <<>>
  \/ \E i \in 1..(Len(s) - Len(sub) + 1) :
       s[i] = sub[1] /\ SubSeq(s, i, i + Len(sub) - 1) = sub

DigitChar(d) ==
  CASE d = 0 -> "0" [] d = 1 -> "1" [] d = 2 -> "2" [] d = 3 -> "3"
    [] d = 4 -> "4" [] d = 5 -> "5" [] d = 6 -> "6" [] d = 7 -> "7"
    [] d = 8 -> "8" [] d = 9 -> "9"

RECURSIVE NatDigits(_)
NatDigits(n) ==
  IF n < 10 THEN <<DigitChar(n)>>
  ELSE NatDigits(n \div 10) \o <<DigitChar(n % 10)>>

\* Display of an integer ("{}" in format!)
Decimal(n) == IF n < 0 THEN <<"-">> \o NatDigits(-n) ELSE NatDigits(n)

\* i32::MAX
I32Max == 2147483647

\* exit status of a process whose main thread panicked
PanicExitCode == 101

\* SIGXFSZ, the signal of a write beyond the file size limit
SigXfsz == 25

\* i32 += 1.  At i32::MAX the outcome depends on the build: with overflow
\* checks (the dev profile) the addition panics, without them (the release
\* profile) it wraps in two's complement.
Inc32(x, checks) ==
  IF x = I32Max
  THEN IF checks THEN [panic |-> TRUE, value |-> x]
       ELSE [panic |-> FALSE, value |-> (-I32Max) - 1]
  ELSE [panic |-> FALSE, value |-> x + 1]

----------------------------------------------------------------------------
(* format_color *)

Colors == {"Black", "Red", "Green", "Yellow", "Blue", "Magenta", "Cyan",
           "White", "BrightBlack", "BrightRed", "BrightGreen",
           "BrightYellow", "BrightBlue", "BrightMagenta", "BrightCyan",
           "BrightWhite"}

NotImplementedYet ==
  <<"n","o","t"," ","i","m","p","l","e","m","e","n","t","e","d"," ",
    "y","e","t">>

\* variant: the table without its yellow arm
ZshColorName_NoYellow(c) ==
  CASE c = "Blue" -> <<"b","l","u","e">>
    [] c = "Green" -> <<"g","r","e","e","n">>
    [] c = "Red" -> <<"r","e","d">>
    [] OTHER -> NotImplementedYet

\* the match on color inside the zsh branch of format_color
ZshColorName(c) ==
  CASE c = "Blue" -> <<"b","l","u","e">>
    [] c = "Green" -> <<"g","r","e","e","n">>
    [] c = "Red" -> <<"r","e","d">>
    [] c = "Yellow" -> <<"y","e","l","l","o","w">>
    [] OTHER -> NotImplementedYet

\* colored's foreground SGR parameter of a colour
AnsiFg(c) ==
  CASE c = "Black" -> <<"3","0">>
    [] c = "Red" -> <<"3","1">>
    [] c = "Green" -> <<"3","2">>
    [] c = "Yellow" -> <<"3","3">>
    [] c = "Blue" -> <<"3","4">>
    [] c = "Magenta" -> <<"3","5">>
    [] c = "Cyan" -> <<"3","6">>
    [] c = "White" -> <<"3","7">>
    [] c = "BrightBlack" -> <<"9","0">>
    [] c = "BrightRed" -> <<"9","1">>
    [] c = "BrightGreen" -> <<"9","2">>
    [] c = "BrightYellow" -> <<"9","3">>
    [] c = "BrightBlue" -> <<"9","4">>
    [] c = "BrightMagenta" -> <<"9","5">>
    [] c = "BrightCyan" -> <<"9","6">>
    [] c = "BrightWhite" -> <<"9","7">>

\* String::from(string).color(color).to_string() under the override `on`
Colorize(string, c, on) ==
  IF on
  THEN <<ESC, "[">> \o AnsiFg(c) \o <<"m">> \o string \o <<ESC, "[", "0", "m">>
  ELSE string

\* format_color(string, color, zsh); `on` is colored's process-wide override
format_color(string, c, zsh, on) ==
  IF zsh
  THEN <<"%","F","{">> \o ZshColorName(c) \o <<"}">> \o string \o <<"%","f">>
  ELSE Colorize(string, c, on)

----------------------------------------------------------------------------
(* stringify_status *)

StatusText(status) ==
  <<"+">> \o Decimal(status[1]) \o <<" ", "~">> \o Decimal(status[2])
          \o <<" ", "-">> \o Decimal(status[3])

\* variant: the test forgets the deleted counter
stringify_status_IgnoresDeleted(status, prefix, c, zsh, on) ==
  IF status[1] > 0 \/ status[2] > 0
  THEN format_color(prefix, "Yellow", zsh, on)
         \o format_color(StatusText(status), c, zsh, on)
  ELSE <<>>

stringify_status(status, prefix, c, zsh, on) ==
  IF status[1] > 0 \/ status[2] > 0 \/ status[3] > 0
  THEN format_color(prefix, "Yellow", zsh, on)
         \o format_color(StatusText(status), c, zsh, on)
  ELSE <<>>

----------------------------------------------------------------------------
(* get_branch_name *)

\* what repo.head() can return: a reference (with or without a shorthand)
\* or an error carrying a code
HeadOk(name) ==
  [ok |-> TRUE, code |-> "Ok", has_shorthand |-> TRUE, shorthand |-> name]
HeadNoShorthand ==
  [ok |-> TRUE, code |-> "Ok", has_shorthand |-> FALSE, shorthand |-> <<>>]
HeadErr(code) ==
  [ok |-> FALSE, code |-> code, has_shorthand |-> FALSE, shorthand |-> <<>>]
NoHead == HeadErr("not called")

NoBranch == <<"n","o"," ","b","r","a","n","c","h">>

\* variant: only the unborn-branch code is mapped to the sentinel
get_branch_name_UnbornOnly(h) ==
  IF ~h.ok /\ ~(h.code = "UnbornBranch")
  THEN [ok |-> FALSE, value |-> <<>>, err |-> h.code]
  ELSE [ok |-> TRUE,
        value |-> IF h.ok /\ h.has_shorthand THEN h.shorthand ELSE NoBranch,
        err |-> "none"]

\* Result<String, Error>: the name, or the error of repo.head()
get_branch_name(h) ==
  IF ~h.ok /\ ~(h.code = "UnbornBranch" \/ h.code = "NotFound")
  THEN [ok |-> FALSE, value |-> <<>>, err |-> h.code]
  ELSE [ok |-> TRUE,
        value |-> IF h.ok /\ h.has_shorthand THEN h.shorthand ELSE NoBranch,
        err |-> "none"]

----------------------------------------------------------------------------
(* get_short_status *)

CURRENT == {}

IndexFlags == {"INDEX_NEW", "INDEX_MODIFIED", "INDEX_DELETED",
               "INDEX_RENAMED", "INDEX_TYPECHANGE"}
WtFlags == {"WT_NEW", "WT_MODIFIED", "WT_DELETED", "WT_TYPECHANGE",
            "WT_RENAMED"}
StatusFlags == IndexFlags \cup WtFlags \cup {"IGNORED", "CONFLICTED"}

\* a StatusEntry: its status bits and whether index_to_workdir() is Some
Entry(s, d) == [status |-> s, index_to_workdir |-> d]

\* counter k of acc += 1: the new counters, or the panic of the addition
Bump(acc, k, checks) ==
  [panic |-> Inc32(acc[k], checks).panic,
   value |-> [acc EXCEPT ![k] = Inc32(acc[k], checks).value]]

\* the match of the first loop; acc is (new, modified, deleted)
IndexMatch(acc, s, checks) ==
  IF "INDEX_NEW" \in s THEN Bump(acc, 1, checks)
  ELSE IF "INDEX_MODIFIED" \in s THEN Bump(acc, 2, checks)
  ELSE IF "INDEX_DELETED" \in s THEN Bump(acc, 3, checks)
  ELSE IF "INDEX_RENAMED" \in s THEN Bump(acc, 2, checks)
  ELSE IF "INDEX_TYPECHANGE" \in s THEN Bump(acc, 2, checks)
  ELSE [panic |-> FALSE, value |-> acc]

\* the match of the second loop
WtMatch(acc, s, checks) ==
  IF "WT_NEW" \in s THEN Bump(acc, 1, checks)
  ELSE IF "WT_MODIFIED" \in s THEN Bump(acc, 2, checks)
  ELSE IF "WT_DELETED" \in s THEN Bump(acc, 3, checks)
  ELSE IF "WT_RENAMED" \in s THEN Bump(acc, 2, checks)
  ELSE IF "WT_TYPECHANGE" \in s THEN Bump(acc, 2, checks)
  ELSE [panic |-> FALSE, value |-> acc]

\* the filter of the first loop
IndexExamined(e) == e.status # CURRENT

\* variant: the second loop skips only the CURRENT entries
WtExamined_NoDeltaFilter(e) == ~(e.status = CURRENT)

\* the negation of the `continue` test of the second loop
WtExamined(e) == ~(e.status = CURRENT \/ ~e.index_to_workdir)

\* the first loop: the counters, or the panic that ended it
RECURSIVE IndexLoop(_, _, _)
IndexLoop(entries, acc, checks) ==
  IF entries = <<>> THEN [panic |-> FALSE, value |-> acc]
  ELSE IF ~IndexExamined(Head(entries))
  THEN IndexLoop(Tail(entries), acc, checks)
  ELSE IF IndexMatch(acc, Head(entries).status, checks).panic
  THEN IndexMatch(acc, Head(entries).status, checks)
  ELSE IndexLoop(Tail(entries),
                 IndexMatch(acc, Head(entries).status, checks).value, checks)

\* the second loop
RECURSIVE WtLoop(_, _, _)
WtLoop(entries, acc, checks) ==
  IF entries = <<>> THEN [panic |-> FALSE, value |-> acc]
  ELSE IF ~WtExamined(Head(entries))
  THEN WtLoop(Tail(entries), acc, checks)
  ELSE IF WtMatch(acc, Head(entries).status, checks).panic
  THEN WtMatch(acc, Head(entries).status, checks)
  ELSE WtLoop(Tail(entries),
              WtMatch(acc, Head(entries).status, checks).value, checks)

\* the two tuples, or the panic of an overflowing addition (a panic of the
\* first loop ends the function before the second one)
get_short_status(entries, checks) ==
  IF IndexLoop(entries, <<0, 0, 0>>, checks).panic
  THEN [panic |-> TRUE, value |-> <<<<0, 0, 0>>, <<0, 0, 0>>>>]
  ELSE [panic |-> WtLoop(entries, <<0, 0, 0>>, checks).panic,
        value |-> << IndexLoop(entries, <<0, 0, 0>>, checks).value,
                     WtLoop(entries, <<0, 0, 0>>, checks).value >>]

----------------------------------------------------------------------------
(* is_ahead_behind_remote *)

\* the outcomes of the three git2 calls of is_ahead_behind_remote
DivEnv(h, u, g, a, b) ==
  [head_ok |-> h, upstream_ok |-> u, graph_ok |-> g, ahead |-> a, behind |-> b]

is_ahead_behind_remote(env) ==
  IF ~env.head_ok THEN [ok |-> FALSE, value |-> <<0, 0>>, err |-> "revparse HEAD"]
  ELSE IF ~env.upstream_ok
  THEN [ok |-> FALSE, value |-> <<0, 0>>, err |-> "revparse @{u}"]
  ELSE IF ~env.graph_ok
  THEN [ok |-> FALSE, value |-> <<0, 0>>, err |-> "graph_ahead_behind"]
  ELSE [ok |-> TRUE, value |-> <<env.ahead, env.behind>>, err |-> "none"]

NoDivergence == [ok |-> FALSE, value |-> <<0, 0>>, err |-> "not called"]

\* the match on is_ahead_behind_remote's result in run
AheadBehind(r) == IF r.ok THEN r.value ELSE <<0, 0>>

----------------------------------------------------------------------------
(* the composition of the line in run *)

\* variant: the behind marker is guarded by the ahead count
vec_of_status_BehindByAhead(name, a, b, istat, wstat, zsh, on) ==
  << format_color(name, "Blue", zsh, on),
     IF a > 0 THEN format_color(UpArrow \o Decimal(a), "Green", zsh, on)
     ELSE <<>>,
     IF a > 0 THEN format_color(DownArrow \o Decimal(b), "Red", zsh, on)
     ELSE <<>>,
     stringify_status(istat, <<>>, "Green", zsh, on),
     stringify_status(wstat, <<"|", " ">>, "Red", zsh, on) >>

\* variant: the branch name is rendered in cyan
vec_of_status_CyanBranch(name, a, b, istat, wstat, zsh, on) ==
  << format_color(name, "Cyan", zsh, on),
     IF a > 0 THEN format_color(UpArrow \o Decimal(a), "Green", zsh, on)
     ELSE <<>>,
     IF b > 0 THEN format_color(DownArrow \o Decimal(b), "Red", zsh, on)
     ELSE <<>>,
     stringify_status(istat, <<>>, "Green", zsh, on),
     stringify_status(wstat, <<"|", " ">>, "Red", zsh, on) >>

vec_of_status(name, a, b, istat, wstat, zsh, on) ==
  << format_color(name, "Blue", zsh, on),
     IF a > 0 THEN format_color(UpArrow \o Decimal(a), "Green", zsh, on)
     ELSE <<>>,
     IF b > 0 THEN format_color(DownArrow \o Decimal(b), "Red", zsh, on)
     ELSE <<>>,
     stringify_status(istat, <<>>, "Green", zsh, on),
     stringify_status(wstat, <<"|", " ">>, "Red", zsh, on) >>

\* variant: no filter, the empty candidates are kept
NonEmpty_KeepAll(vec) == vec

\* .filter(|elem| !elem.is_empty())
NonEmpty(vec) == SelectSeq(vec, LAMBDA elem : ~IsEmpty(elem))

\* [String]::join(sep)
RECURSIVE Join(_, _)
Join(vec, sep) ==
  IF vec = <<>> THEN <<>>
  ELSE IF Len(vec) = 1 THEN vec[1]
  ELSE vec[1] \o sep \o Join(Tail(vec), sep)

\* the text handed to println! (without the newline)
Line(name, a, b, istat, wstat, zsh, on) ==
  format_color(<<"[">>, "Yellow", zsh, on)
    \o Join(NonEmpty(vec_of_status(name, a, b, istat, wstat, zsh, on)), <<Space>>)
    \o format_color(<<"]">>, "Yellow", zsh, on)

----------------------------------------------------------------------------
(* The environment: what the git2 calls can return *)

BranchNames == { <<"m","a","i","n">>, <<"f","i","x","/","1">> }

ErrorCodes == {"UnbornBranch", "NotFound", "GenericError", "Invalid"}

HeadResults ==
  {HeadOk(n) : n \in BranchNames} \cup {HeadNoShorthand}
    \cup {HeadErr(c) : c \in ErrorCodes}

CommitCounts == (0..MaxCommits) \cup {12}

DivEnvs ==
  {DivEnv(FALSE, TRUE, TRUE, 0, 0), DivEnv(TRUE, FALSE, TRUE, 0, 0),
   DivEnv(TRUE, TRUE, FALSE, 0, 0)}
    \cup {DivEnv(TRUE, TRUE, TRUE, a, b) : a \in CommitCounts, b \in CommitCounts}

\* entries of the status lists read by run, listed by kind
RunEntryKinds ==
  << Entry({"INDEX_NEW"}, FALSE), Entry({"INDEX_MODIFIED"}, FALSE),
     Entry({"WT_DELETED"}, TRUE) >>

\* status lists of at most MaxRecords entries, one per combination of kinds
RunStatuses ==
  UNION { { [i \in 1..n |-> RunEntryKinds[f[i]]] :
              f \in {g \in [1..n -> 1..Len(RunEntryKinds)] :
                       \A i \in 1..(n - 1) : g[i] <= g[i + 1]} } :
          n \in 0..MaxRecords }

\* every status entry: any set of status bits, with or without a delta
AllEntries == {Entry(s, d) : s \in SUBSET StatusFlags, d \in BOOLEAN}

ClassifyKinds ==
  { Entry(CURRENT, FALSE), Entry(CURRENT, TRUE),
    Entry({"INDEX_NEW"}, FALSE), Entry({"INDEX_MODIFIED"}, FALSE),
    Entry({"INDEX_DELETED"}, FALSE), Entry({"INDEX_RENAMED"}, FALSE),
    Entry({"INDEX_TYPECHANGE"}, FALSE),
    Entry({"WT_NEW"}, TRUE), Entry({"WT_MODIFIED"}, TRUE),
    Entry({"WT_DELETED"}, TRUE), Entry({"WT_RENAMED"}, TRUE),
    Entry({"WT_TYPECHANGE"}, TRUE), Entry({"WT_MODIFIED"}, FALSE),
    Entry({"IGNORED"}, TRUE), Entry({"CONFLICTED"}, TRUE),
    Entry({"INDEX_RENAMED", "INDEX_MODIFIED"}, FALSE),
    Entry({"INDEX_DELETED", "WT_NEW"}, TRUE),
    Entry({"INDEX_NEW", "WT_DELETED"}, TRUE),
    Entry({"WT_RENAMED", "WT_MODIFIED"}, TRUE) }

\* inputs of the classifier: every single entry, and every list of at most
\* MaxClassifyLen entries of the kinds above
ClassifyInputs ==
  {<<e>> : e \in AllEntries}
    \cup UNION { [1..n -> ClassifyKinds] : n \in 0..MaxClassifyLen }

FormatTexts ==
  { <<>>, <<"[">>, <<"]">>, <<"|", " ">>, <<"m","a","i","n">>, NoBranch,
    UpArrow \o <<"3">>, <<"+","2"," ","~","1"," ","-","0">> }

NoCall == [text |-> <<>>, color |-> "Black", zsh |-> FALSE, on |-> FALSE]

----------------------------------------------------------------------------
(* main and run *)

\* colored::control::set_override(args.color)
set_override(b) == b

\* state once main has parsed the arguments and set the colour override
Init ==
  /\ pc = "open"
  /\ args_color \in BOOLEAN
  /\ args_zsh \in BOOLEAN
  /\ colorize = set_override(args_color)
  /\ statuses = <<>>
  /\ index_status = <<0, 0, 0>>
  /\ wt_status = <<0, 0, 0>>
  /\ head = NoHead
  /\ branch_name = <<>>
  /\ divergence = NoDivergence
  /\ ahead = 0
  /\ behind = 0
  /\ run_result = "pending"
  /\ stdout = <<>>
  /\ log = <<>>
  /\ exit_code = -1
  /\ stderr = <<>>
  /\ fc_in = NoCall
  /\ fc_out = <<>>

\* `?` on an Err, and the explicit return Err(..): run returns the error
Return(e) ==
  /\ run_result' = e
  /\ pc' = "run_returned"

\* a panic of the main thread: the message goes to standard error, run never
\* returns, and the process ends with status 101
Panic(msg) ==
  /\ stderr' = Append(stderr, msg)
  /\ exit_code' = PanicExitCode
  /\ pc' = "panicked"

\* let repo = Repository::open(&path)?;
RepositoryOpen ==
  /\ pc = "open"
  /\ \E ok \in BOOLEAN :
       IF ok THEN pc' = "is_bare" /\ UNCHANGED run_result
       ELSE Return("could not find repository")
  /\ UNCHANGED <<args_color, args_zsh, colorize, statuses, index_status,
                 wt_status, head, branch_name, divergence, ahead, behind,
                 stdout, log, exit_code, stderr, fc_in, fc_out>>

\* if repo.is_bare() { return Err(..) }
IsBare ==
  /\ pc = "is_bare"
  /\ \E bare \in BOOLEAN :
       IF bare THEN Return("Cannot report status on bare repository")
       ELSE pc' = "statuses" /\ UNCHANGED run_result
  /\ UNCHANGED <<args_color, args_zsh, colorize, statuses, index_status,
                 wt_status, head, branch_name, divergence, ahead, behind,
                 stdout, log, exit_code, stderr, fc_in, fc_out>>

\* let statuses = repo.statuses(Some(&mut opts))?;
RepoStatuses ==
  /\ pc = "statuses"
  /\ \/ /\ Return("could not read statuses")
        /\ UNCHANGED statuses
     \/ /\ \E list \in RunStatuses : statuses' = list
        /\ pc' = "get_short_status"
        /\ UNCHANGED run_result
  /\ UNCHANGED <<args_color, args_zsh, colorize, index_status,
                 wt_status, head, branch_name, divergence, ahead, behind,
                 stdout, log, exit_code, stderr, fc_in, fc_out>>

\* let (index_status, wt_status) = get_short_status(&statuses);
\* `checks` is whether the build has overflow checks
GetShortStatus ==
  /\ pc = "get_short_status"
  /\ \E checks \in BOOLEAN :
       IF get_short_status(statuses, checks).panic
       THEN /\ Panic("attempt to add with overflow")
            /\ UNCHANGED <<index_status, wt_status>>
       ELSE /\ index_status' = get_short_status(statuses, checks).value[1]
            /\ wt_status' = get_short_status(statuses, checks).value[2]
            /\ pc' = "get_branch_name"
            /\ UNCHANGED <<exit_code, stderr>>
  /\ UNCHANGED <<args_color, args_zsh, colorize, statuses, head, branch_name,
                 divergence, ahead, behind, run_result, stdout, log,
                 fc_in, fc_out>>

\* let branch_name = get_branch_name(&repo)?;
GetBranchName ==
  /\ pc = "get_branch_name"
  /\ \E h \in HeadResults :
       /\ head' = h
       /\ IF get_branch_name(h).ok
          THEN /\ branch_name' = get_branch_name(h).value
               /\ pc' = "is_ahead_behind_remote"
               /\ UNCHANGED run_result
          ELSE /\ Return(get_branch_name(h).err)
               /\ UNCHANGED branch_name
  /\ UNCHANGED <<args_color, args_zsh, colorize, statuses, index_status,
                 wt_status, divergence, ahead, behind, stdout, log,
                 exit_code, stderr, fc_in, fc_out>>

\* variant: the error of is_ahead_behind_remote is propagated with `?`
IsAheadBehindRemote_Propagate ==
  /\ pc = "is_ahead_behind_remote"
  /\ \E env \in DivEnvs :
       /\ divergence' = is_ahead_behind_remote(env)
       /\ ahead' = AheadBehind(is_ahead_behind_remote(env))[1]
       /\ behind' = AheadBehind(is_ahead_behind_remote(env))[2]
       /\ IF is_ahead_behind_remote(env).ok
          THEN pc' = "println" /\ UNCHANGED run_result
          ELSE Return(is_ahead_behind_remote(env).err)
  /\ UNCHANGED <<args_color, args_zsh, colorize, statuses, index_status,
                 wt_status, head, branch_name, stdout, log,
                 exit_code, stderr, fc_in, fc_out>>

\* let (ahead, behind) = match is_ahead_behind_remote(&repo) { .. };
IsAheadBehindRemote ==
  /\ pc = "is_ahead_behind_remote"
  /\ \E env \in DivEnvs :
       /\ divergence' = is_ahead_behind_remote(env)
       /\ ahead' = AheadBehind(is_ahead_behind_remote(env))[1]
       /\ behind' = AheadBehind(is_ahead_behind_remote(env))[2]
  /\ pc' = "println"
  /\ UNCHANGED <<args_color, args_zsh, colorize, statuses, index_status,
                 wt_status, head, branch_name, run_result, stdout, log,
                 exit_code, stderr, fc_in, fc_out>>

\* what println! hands to standard output: the line and a newline
Output(name, a, b, istat, wstat, zsh, on) ==
  Line(name, a, b, istat, wstat, zsh, on) \o <<NL>>

\* the process is killed by a signal: nothing more is written or flushed
Killed(sig) ==
  /\ exit_code' = -sig
  /\ pc' = "killed"

\* println!(..); return Ok(());
\* The outcomes of the write to standard output:
\*  - every byte is written and run returns Ok;
\*  - standard output is not a descriptor open for writing (EBADF): std's
\*    stdout takes the write as done, nothing is written and run returns Ok;
\*  - the write fails and println! panics.  A failed write may have
\*    delivered the first bytes of the output, the rest stays in the buffer
\*    of std's stdout, and the runtime flushes that buffer when the process
\*    exits after the panic; the flush may deliver some or all of the
\*    remaining bytes.  When the process has exited with the panic's status,
\*    standard output therefore holds the first k bytes of the output, for
\*    any k from none to all of them;
\*  - the write raises a signal whose default action ends the process
\*    (SIGXFSZ at the file size limit) after the first k bytes, not all.
Println ==
  /\ pc = "println"
  /\ LET out == Output(branch_name, ahead, behind, index_status, wt_status,
                       args_zsh, colorize)
     IN \/ /\ stdout' = stdout \o out
           /\ Return("Ok")
           /\ UNCHANGED <<exit_code, stderr>>
        \/ /\ Return("Ok")
           /\ UNCHANGED <<stdout, exit_code, stderr>>
        \/ /\ \E k \in 0..Len(out) : stdout' = stdout \o SubSeq(out, 1, k)
           /\ Panic("failed printing to stdout")
           /\ UNCHANGED run_result
        \/ /\ \E k \in 0..(Len(out) - 1) : stdout' = stdout \o SubSeq(out, 1, k)
           /\ Killed(SigXfsz)
           /\ UNCHANGED <<run_result, stderr>>
  /\ UNCHANGED <<args_color, args_zsh, colorize, statuses, index_status,
                 wt_status, head, branch_name, divergence, ahead, behind,
                 log, fc_in, fc_out>>

\* variant: the error arm ends the process with a failure status
MainMatch_ExitFailure ==
  /\ pc = "run_returned"
  /\ log' = IF run_result = "Ok" THEN log
            ELSE Append(log, [level |-> "debug", msg |-> run_result])
  /\ exit_code' = IF run_result = "Ok" THEN 0 ELSE 1
  /\ pc' = "exited"
  /\ UNCHANGED <<args_color, args_zsh, colorize, statuses, index_status,
                 wt_status, head, branch_name, divergence, ahead, behind,
                 run_result, stdout, stderr, fc_in, fc_out>>

\* match run(&args) { Ok(()) => {}  Err(e) => { debug!("{}", e); return } }
\* and the return of main
MainMatch ==
  /\ pc = "run_returned"
  /\ log' = IF run_result = "Ok" THEN log
            ELSE Append(log, [level |-> "debug", msg |-> run_result])
  /\ exit_code' = 0
  /\ pc' = "exited"
  /\ UNCHANGED <<args_color, args_zsh, colorize, statuses, index_status,
                 wt_status, head, branch_name, divergence, ahead, behind,
                 run_result, stdout, stderr, fc_in, fc_out>>

Next ==
  \/ RepositoryOpen
  \/ IsBare
  \/ RepoStatuses
  \/ GetShortStatus
  \/ GetBranchName
  \/ IsAheadBehindRemote
  \/ Println
  \/ MainMatch

Spec == Init /\ [][Next]_vars

----------------------------------------------------------------------------
(* get_short_status on its own: any status list *)

InitClassify ==
  /\ pc = "get_short_status"
  /\ args_color = FALSE
  /\ args_zsh = FALSE
  /\ colorize = set_override(args_color)
  /\ statuses \in ClassifyInputs
  /\ index_status = <<0, 0, 0>>
  /\ wt_status = <<0, 0, 0>>
  /\ head = NoHead
  /\ branch_name = <<>>
  /\ divergence = NoDivergence
  /\ ahead = 0
  /\ behind = 0
  /\ run_result = "pending"
  /\ stdout = <<>>
  /\ log = <<>>
  /\ exit_code = -1
  /\ stderr = <<>>
  /\ fc_in = NoCall
  /\ fc_out = <<>>

NextClassify == GetShortStatus

SpecClassify == InitClassify /\ [][NextClassify]_vars

----------------------------------------------------------------------------
(* format_color on its own: any text, colour and mode *)

InitFormat ==
  /\ pc = "format_color"
  /\ args_color = FALSE
  /\ args_zsh = FALSE
  /\ colorize = set_override(args_color)
  /\ statuses = <<>>
  /\ index_status = <<0, 0, 0>>
  /\ wt_status = <<0, 0, 0>>
  /\ head = NoHead
  /\ branch_name = <<>>
  /\ divergence = NoDivergence
  /\ ahead = 0
  /\ behind = 0
  /\ run_result = "pending"
  /\ stdout = <<>>
  /\ log = <<>>
  /\ exit_code = -1
  /\ stderr = <<>>
  /\ fc_in \in [text : FormatTexts, color : Colors, zsh : BOOLEAN,
                on : BOOLEAN]
  /\ fc_out = <<>>

FormatColor ==
  /\ pc = "format_color"
  /\ fc_out' = format_color(fc_in.text, fc_in.color, fc_in.zsh, fc_in.on)
  /\ pc' = "formatted"
  /\ UNCHANGED <<args_color, args_zsh, colorize, statuses, index_status,
                 wt_status, head, branch_name, divergence, ahead, behind,
                 run_result, stdout, log, exit_code, stderr, fc_in>>

NextFormat == FormatColor

SpecFormat == InitFormat /\ [][NextFormat]_vars

----------------------------------------------------------------------------
(* Helpers of the properties *)

\* run has returned Ok
RunOk == pc \in {"run_returned", "exited"} /\ run_result = "Ok"

\* run has returned Ok and its output is on standard output
Printed == RunOk /\ stdout # <<>>

\* run has returned an error
Failed == pc \in {"run_returned", "exited"} /\ run_result # "Ok"

CountChar(s, ch) == Len(SelectSeq(s, LAMBDA x : x = ch))

\* number of occurrences of the non-empty text sub in s
CountSub(s, sub) ==
  Cardinality({i \in 1..(Len(s) - Len(sub) + 1) :
                 s[i] = sub[1] /\ SubSeq(s, i, i + Len(sub) - 1) = sub})

\* the printed line: standard output without its final newline
OutLine == SubSeq(stdout, 1, Len(stdout) - 1)

\* standard output holds exactly one line, newline included
OneLine ==
  /\ Len(stdout) >= 1
  /\ stdout[Len(stdout)] = NL
  /\ \A i \in 1..(Len(stdout) - 1) : stdout[i] # NL

IsPrefix(p, s) == Len(p) <= Len(s) /\ SubSeq(s, 1, Len(p)) = p

AnyPositive(t) == t[1] > 0 \/ t[2] > 0 \/ t[3] > 0

ToInt(b) == IF b THEN 1 ELSE 0

\* "+n ~m -d"
CountsText(t) ==
  <<"+">> \o Decimal(t[1]) \o <<Space, "~">> \o Decimal(t[2])
          \o <<Space, "-">> \o Decimal(t[3])

\* the plain line: the branch name, then every non-empty candidate after
\* one space, between the brackets
PlainLine ==
  <<"[">> \o branch_name
    \o (IF ahead > 0 THEN <<Space>> \o UpArrow \o Decimal(ahead) ELSE <<>>)
    \o (IF behind > 0 THEN <<Space>> \o DownArrow \o Decimal(behind) ELSE <<>>)
    \o (IF AnyPositive(index_status)
        THEN <<Space>> \o CountsText(index_status) ELSE <<>>)
    \o (IF AnyPositive(wt_status)
        THEN <<Space, "|", Space>> \o CountsText(wt_status) ELSE <<>>)
    \o <<"]">>

NoAdjacentSpaces(s) ==
  \A i \in 1..(Len(s) - 1) : ~(s[i] = Space /\ s[i + 1] = Space)

Str_main == <<"m","a","i","n">>

----------------------------------------------------------------------------
(* C1 *)

\* C1 as stated: every successful run with color disabled and prompt-escape
\* mode off prints exactly one line, "[" + S + "]".
C1_SuccessfulRunPrints ==
  (RunOk /\ ~args_color /\ ~args_zsh) => OneLine /\ OutLine = PlainLine

\* C1 as amended: a successful run with color disabled and prompt-escape
\* mode off prints nothing when standard output is not open for writing, and
\* otherwise prints exactly one line "[" + S + "]", S being the non-empty
\* candidates (branch, up-arrow ahead, down-arrow behind, "+n ~m -d",
\* "| +n ~m -d") in that order joined by one space; with only the branch
\* non-empty the line is "[<branch>]"; no two adjacent spaces, no space
\* after "[" or before "]".
C1_PlainLineFormat ==
  (RunOk /\ ~args_color /\ ~args_zsh) =>
    \/ stdout = <<>>
    \/ /\ OneLine
       /\ OutLine = PlainLine
       /\ NoAdjacentSpaces(OutLine)
       /\ OutLine[2] # Space
       /\ OutLine[Len(OutLine) - 1] # Space
       /\ (ahead = 0 /\ behind = 0 /\ ~AnyPositive(index_status)
             /\ ~AnyPositive(wt_status))
            => OutLine = <<"[">> \o branch_name \o <<"]">>

\* staged files and no upstream: "[main +1 ~1 -0]"
C1_Witness ==
  /\ Printed /\ ~args_color /\ ~args_zsh
  /\ branch_name = Str_main
  /\ divergence.err = "revparse @{u}"
  /\ index_status = <<1, 1, 0>> /\ wt_status = <<0, 0, 0>>
  /\ stdout = <<"[","m","a","i","n"," ","+","1"," ","~","1"," ","-","0","]",NL>>

----------------------------------------------------------------------------
(* C2 *)

\* number of colour wrappers of the line: brackets, branch, each marker,
\* and prefix + counts of each status segment
ExpectedWrappers ==
  3 + ToInt(ahead > 0) + ToInt(behind > 0)
    + 2 * ToInt(AnyPositive(index_status)) + 2 * ToInt(AnyPositive(wt_status))

\* number of spaces of the line: those of the branch name, one separator per
\* candidate after the branch, two inside "+n ~m -d", one more in "| "
ExpectedSpaces ==
  CountChar(branch_name, Space)
    + ToInt(ahead > 0) + ToInt(behind > 0)
    + 3 * ToInt(AnyPositive(index_status)) + 4 * ToInt(AnyPositive(wt_status))

\* C2: in every rendering mode, the status segment of a side is in the
\* printed line iff one of that side's counters is > 0; a side whose counters
\* are all 0 leaves no text, no prefix, no separator and no colour directive.
C2_StatusSegmentIffCounter ==
  Printed =>
    LET line == OutLine
        bars == CountChar(line, "|")
        pluses == CountChar(line, "+")
    IN
    /\ (bars = 1) <=> AnyPositive(wt_status)
    /\ (bars = 0) <=> ~AnyPositive(wt_status)
    /\ (pluses - bars = 1) <=> AnyPositive(index_status)
    /\ (pluses - bars = 0) <=> ~AnyPositive(index_status)
    /\ AnyPositive(index_status) => Contains(line, CountsText(index_status))
    /\ AnyPositive(wt_status) => Contains(line, CountsText(wt_status))
    /\ CountChar(line, Space) = ExpectedSpaces
    /\ CountChar(line, "{") = IF args_zsh THEN ExpectedWrappers ELSE 0
    /\ CountChar(line, ESC) =
         IF ~args_zsh /\ args_color THEN 2 * ExpectedWrappers ELSE 0

\* only a deleted worktree file, nothing staged, prompt-escape mode
C2_Witness ==
  /\ Printed /\ args_zsh
  /\ index_status = <<0, 0, 0>> /\ wt_status = <<0, 0, 1>>
  /\ Contains(OutLine, <<"+","0"," ","~","0"," ","-","1">>)

----------------------------------------------------------------------------
(* C3 *)

\* C3: the up-arrow marker is in the printed line iff the ahead count is
\* > 0, the down-arrow marker iff the behind count is > 0, independently;
\* when divergence resolution fails both are absent.
C3_MarkersIffCount ==
  Printed =>
    LET line == OutLine
        a == IF divergence.ok THEN divergence.value[1] ELSE 0
        b == IF divergence.ok THEN divergence.value[2] ELSE 0
        ups == CountSub(line, UpArrow)
        downs == CountSub(line, DownArrow)
    IN
    /\ ups = ToInt(a > 0)
    /\ downs = ToInt(b > 0)
    /\ a > 0 => Contains(line, UpArrow \o Decimal(a))
    /\ b > 0 => Contains(line, DownArrow \o Decimal(b))
    /\ ~divergence.ok => ups = 0 /\ downs = 0

\* behind without ahead, in a clean tree
C3_Witness ==
  /\ Printed /\ ~args_color /\ ~args_zsh
  /\ divergence.ok /\ divergence.value = <<0, 1>>
  /\ branch_name = Str_main
  /\ index_status = <<0, 0, 0>> /\ wt_status = <<0, 0, 0>>
  /\ stdout = <<"[","m","a","i","n"," ","0xE2","0x86","0x93","1","]",NL>>

----------------------------------------------------------------------------
(* C4 *)

FatalHeadError == ~head.ok /\ head.code \in ErrorCodes \ {"UnbornBranch", "NotFound"}

\* C4: when opening fails, the repository is bare, status enumeration fails
\* or branch resolution fails with another code than unborn/not-found,
\* nothing is written to standard output (not one byte), the error is logged
\* once at debug level and the process exits with code 0 (run returns the
\* error, it never panics); standard output never holds more than one line,
\* and nothing reaches it before the repository was opened, found not bare,
\* its statuses read, its branch and divergence resolved and println! is
\* executed.
C4_SilentFailure ==
  /\ Failed => stdout = <<>>
  /\ FatalHeadError => stdout = <<>> /\ Failed
  /\ run_result \notin {"pending", "Ok"}
       => Failed /\ stderr = <<>> /\ exit_code \in {-1, 0}
  /\ \A i \in 1..(Len(stdout) - 1) : stdout[i] # NL
  /\ Printed => OneLine
  /\ stdout # <<>> =>
       /\ pc \in {"run_returned", "exited", "panicked", "killed"}
       /\ run_result \in {"pending", "Ok"}
       /\ get_branch_name(head).ok
       /\ divergence # NoDivergence
  /\ pc \notin {"run_returned", "exited", "panicked", "killed"}
       => stdout = <<>> /\ run_result = "pending"
  /\ \A i \in DOMAIN log : log[i].level = "debug"
  /\ pc = "exited" =>
       /\ exit_code = 0
       /\ IF run_result = "Ok" THEN log = <<>>
          ELSE log = << [level |-> "debug", msg |-> run_result] >>

\* a bare repository: no line, the message logged, exit code 0
C4_Witness ==
  /\ pc = "exited"
  /\ run_result = "Cannot report status on bare repository"
  /\ stdout = <<>>
  /\ exit_code = 0
  /\ Len(log) = 1

----------------------------------------------------------------------------
(* C5 *)

\* the category of a status on the index side, by priority
IsIndexNew(s) == "INDEX_NEW" \in s
IsIndexModified(s) ==
  /\ "INDEX_NEW" \notin s
  /\ \/ "INDEX_MODIFIED" \in s
     \/ /\ "INDEX_DELETED" \notin s
        /\ ("INDEX_RENAMED" \in s \/ "INDEX_TYPECHANGE" \in s)
IsIndexDeleted(s) ==
  "INDEX_NEW" \notin s /\ "INDEX_MODIFIED" \notin s /\ "INDEX_DELETED" \in s

\* the category of a status on the worktree side, by priority
IsWtNew(s) == "WT_NEW" \in s
IsWtModified(s) ==
  /\ "WT_NEW" \notin s
  /\ \/ "WT_MODIFIED" \in s
     \/ /\ "WT_DELETED" \notin s
        /\ ("WT_RENAMED" \in s \/ "WT_TYPECHANGE" \in s)
IsWtDeleted(s) ==
  "WT_NEW" \notin s /\ "WT_MODIFIED" \notin s /\ "WT_DELETED" \in s

\* the records examined for each side
IndexRecords == {i \in DOMAIN statuses : statuses[i].status # CURRENT}
WtRecords ==
  {i \in DOMAIN statuses :
     statuses[i].status # CURRENT /\ statuses[i].index_to_workdir}

Classified == pc = "get_branch_name"

\* C5: each counter of get_short_status is the number of examined records
\* of its category under first-match-wins in the order new, modified,
\* deleted, renamed (as modified), type-changed (as modified); the index
\* side examines the records that are not CURRENT, the worktree side those
\* that are not CURRENT and carry an index-to-workdir delta; a record with
\* none of the tested flags counts nowhere; all counters are >= 0 and the
\* sum of a side never exceeds the number of records examined for it.
C5_CountersAreCategoryCounts ==
  Classified =>
    /\ index_status[1] =
         Cardinality({i \in IndexRecords : IsIndexNew(statuses[i].status)})
    /\ index_status[2] =
         Cardinality({i \in IndexRecords : IsIndexModified(statuses[i].status)})
    /\ index_status[3] =
         Cardinality({i \in IndexRecords : IsIndexDeleted(statuses[i].status)})
    /\ wt_status[1] =
         Cardinality({i \in WtRecords : IsWtNew(statuses[i].status)})
    /\ wt_status[2] =
         Cardinality({i \in WtRecords : IsWtModified(statuses[i].status)})
    /\ wt_status[3] =
         Cardinality({i \in WtRecords : IsWtDeleted(statuses[i].status)})
    /\ \A k \in 1..3 : index_status[k] >= 0 /\ wt_status[k] >= 0
    /\ index_status[1] + index_status[2] + index_status[3]
         = Cardinality({i \in IndexRecords :
                          statuses[i].status \cap IndexFlags # {}})
    /\ wt_status[1] + wt_status[2] + wt_status[3]
         = Cardinality({i \in WtRecords :
                          statuses[i].status \cap WtFlags # {}})
    /\ index_status[1] + index_status[2] + index_status[3]
         <= Cardinality(IndexRecords)
    /\ wt_status[1] + wt_status[2] + wt_status[3] <= Cardinality(WtRecords)

\* a renamed-and-modified staged file counts once, as modified; a worktree
\* flag without a delta counts nowhere
C5_Witness ==
  /\ Classified
  /\ statuses = << Entry({"INDEX_RENAMED", "INDEX_MODIFIED"}, FALSE),
                   Entry({"WT_MODIFIED"}, FALSE) >>
  /\ index_status = <<0, 1, 0>>
  /\ wt_status = <<0, 0, 0>>

----------------------------------------------------------------------------
(* C6 *)

\* C6: whenever --color is not given, whatever --zsh is, every segment is
\* rendered unchanged: the printed line is the plain line and holds no ANSI
\* escape and no %F{..} / %f directive.
C6_PlainWhenColorDisabled ==
  (Printed /\ ~args_color) =>
    /\ OutLine = PlainLine
    /\ CountChar(OutLine, ESC) = 0
    /\ ~Contains(OutLine, <<"%", "F", "{">>)
    /\ ~Contains(OutLine, <<"%", "f">>)

----------------------------------------------------------------------------
(* C7 *)

HeadCalled == head # NoHead

\* C7: get_branch_name gives "no branch", and no error, when head
\* resolution fails with unborn-branch or not-found or gives a reference
\* without shorthand; it gives the shorthand when there is one; every other
\* failure is returned as the error of the run, which prints nothing.
C7_BranchNameOrSentinel ==
  HeadCalled =>
    /\ (~head.ok /\ head.code \in {"UnbornBranch", "NotFound"})
         => branch_name = NoBranch /\ ~Failed
    /\ (head.ok /\ ~head.has_shorthand) => branch_name = NoBranch /\ ~Failed
    /\ (head.ok /\ head.has_shorthand)
         => branch_name = head.shorthand /\ ~Failed
    /\ (~head.ok /\ head.code \notin {"UnbornBranch", "NotFound"})
         => /\ Failed
            /\ run_result = head.code
            /\ stdout = <<>>
    /\ Printed => Contains(OutLine, branch_name)

\* head not found: the run prints "[no branch]"
C7_Witness ==
  /\ Printed /\ ~args_color /\ ~args_zsh
  /\ head = HeadErr("NotFound")
  /\ branch_name = NoBranch
  /\ divergence.err = "revparse HEAD"
  /\ index_status = <<0, 0, 0>> /\ wt_status = <<0, 0, 0>>
  /\ stdout = <<"[","n","o"," ","b","r","a","n","c","h","]",NL>>

----------------------------------------------------------------------------
(* C8 *)

DivergenceFailed ==
  divergence.err \in {"revparse HEAD", "revparse @{u}", "graph_ahead_behind"}

\* what run gets from an upstream 0 commits ahead and 0 behind
ZeroDivergence == AheadBehind(is_ahead_behind_remote(DivEnv(TRUE, TRUE, TRUE, 0, 0)))

\* the output of the same branch and counters with an upstream 0 commits
\* ahead and 0 behind
ZeroOutput ==
  Output(branch_name, ZeroDivergence[1], ZeroDivergence[2], index_status,
         wt_status, args_zsh, colorize)

Terminated == pc \in {"exited", "panicked", "killed"}

\* C8 as stated: after any failure of divergence resolution the run still
\* prints exactly one line, the line of an upstream 0 commits ahead and 0
\* behind.
C8_AlwaysOneLine ==
  (DivergenceFailed /\ Terminated) => stdout = ZeroOutput

\* C8 as amended: a failure of divergence resolution (HEAD, upstream or
\* graph) is never propagated: the run goes on with (0, 0) to println! and
\* never returns an error.  When standard output takes the whole write the
\* run prints exactly one line, the one printed for the same branch and
\* counters with an upstream 0 commits ahead and 0 behind, and exits with 0.
\* Otherwise standard output holds only a prefix of that line: nothing, with
\* exit 0, when it is not open for writing; a prefix (possibly empty,
\* possibly the whole) with exit 101 when println! panics; a proper prefix
\* when the write's signal kills the process.
C8_DivergenceFailureIsZero ==
  DivergenceFailed =>
    /\ ~divergence.ok
    /\ ahead = 0 /\ behind = 0
    /\ ~Failed
    /\ pc \in {"println", "run_returned", "exited", "panicked", "killed"}
    /\ pc \in {"run_returned", "exited"} =>
         RunOk /\ (stdout = ZeroOutput \/ stdout = <<>>)
    /\ pc = "exited" => exit_code = 0
    /\ pc = "panicked" =>
         /\ stderr = <<"failed printing to stdout">>
         /\ exit_code = PanicExitCode
         /\ IsPrefix(stdout, ZeroOutput)
    /\ pc = "killed" =>
         /\ exit_code = -SigXfsz
         /\ IsPrefix(stdout, ZeroOutput) /\ stdout # ZeroOutput
    /\ Printed =>
         /\ OneLine
         /\ OutLine = Line(branch_name, ZeroDivergence[1], ZeroDivergence[2],
                           index_status, wt_status, args_zsh, colorize)

\* the graph computation fails on a clean tree: "[main]"
C8_Witness ==
  /\ pc = "exited" /\ Printed /\ ~args_color /\ ~args_zsh
  /\ divergence.err = "graph_ahead_behind"
  /\ branch_name = Str_main
  /\ index_status = <<0, 0, 0>> /\ wt_status = <<0, 0, 0>>
  /\ stdout = <<"[","m","a","i","n","]",NL>>

----------------------------------------------------------------------------
(* C9 *)

Formatted == pc = "formatted"

ZshWrap(name, text) ==
  <<"%", "F", "{">> \o name \o <<"}">> \o text \o <<"%", "f">>

\* C9: in prompt-escape mode format_color gives "%F{<name>}" + text + "%f"
\* with the colour's name for blue, green, red and yellow, and with
\* "not implemented yet" in place of the name for every other colour.
C9_ZshWrapper ==
  (Formatted /\ fc_in.zsh) =>
    /\ fc_in.color = "Blue" => fc_out = ZshWrap(<<"b","l","u","e">>, fc_in.text)
    /\ fc_in.color = "Green"
         => fc_out = ZshWrap(<<"g","r","e","e","n">>, fc_in.text)
    /\ fc_in.color = "Red" => fc_out = ZshWrap(<<"r","e","d">>, fc_in.text)
    /\ fc_in.color = "Yellow"
         => fc_out = ZshWrap(<<"y","e","l","l","o","w">>, fc_in.text)
    /\ fc_in.color \notin {"Blue", "Green", "Red", "Yellow"}
         => fc_out = ZshWrap(NotImplementedYet, fc_in.text)

\* magenta in prompt-escape mode
C9_Witness ==
  /\ Formatted /\ fc_in.zsh
  /\ fc_in.color = "Magenta"
  /\ fc_in.text = Str_main
  /\ Contains(fc_out, NotImplementedYet)

----------------------------------------------------------------------------
(* C10 *)

SupportedNames ==
  { <<"b","l","u","e">>, <<"g","r","e","e","n">>, <<"r","e","d">>,
    <<"y","e","l","l","o","w">> }

\* every %F{ of the line is followed by a supported name and }
ZshDirectivesSupported(line) ==
  \A i \in 1..(Len(line) - 2) :
    (line[i] = "%" /\ line[i + 1] = "F" /\ line[i + 2] = "{") =>
      \E n \in SupportedNames :
        SubSeq(line, i + 3, i + 3 + Len(n)) = n \o <<"}">>

\* every ESC[ of the line is followed by 31m..34m or by 0m
AnsiCodesSupported(line) ==
  \A i \in 1..(Len(line) - 1) :
    (line[i] = ESC /\ line[i + 1] = "[") =>
      \/ SubSeq(line, i + 2, i + 3) = <<"0", "m">>
      \/ /\ SubSeq(line, i + 2, i + 2) = <<"3">>
         /\ SubSeq(line, i + 3, i + 3) \in {<<"1">>, <<"2">>, <<"3">>, <<"4">>}
         /\ SubSeq(line, i + 4, i + 4) = <<"m">>

\* C10: whatever the flags and the repository state, every colour run passes
\* to format_color is blue, green, red or yellow: the printed line never
\* holds "not implemented yet" (no branch name of the model holds it), and
\* every colour directive of the line names one of the four colours.
C10_OnlySupportedRoles ==
  Printed =>
    /\ ~Contains(OutLine, NotImplementedYet)
    /\ ZshDirectivesSupported(OutLine)
    /\ AnsiCodesSupported(OutLine)

\* every segment is rendered, in prompt-escape mode
C10_Witness ==
  /\ Printed /\ args_zsh
  /\ ahead > 0 /\ behind > 0
  /\ AnyPositive(index_status) /\ AnyPositive(wt_status)
  /\ CountChar(OutLine, "{") = 9

====
